---- MODULE Spec2Model ----
(***************************************************************************)
(* Model of my_dashboard.py: the two scans of the stock suggestion         *)
(* dashboard (find_long_term_suggestions, find_intraday_opportunities),    *)
(* the progress helper _update_progress and the Streamlit script that      *)
(* calls them.                                                             *)
(*                                                                         *)
(* Prices are exact decimals counted in paise (1/100 rupee), volumes are   *)
(* naturals.  The code's float comparisons are modelled by the same        *)
(* comparisons in exact arithmetic: x <= low * 1.05 is 100*x <= 105*low,   *)
(* x >= high * 0.995 is 1000*x >= 995*high, v > avg * 1.5 with             *)
(* avg = sum/len is 2*v*len > 3*sum.                                       *)
(*                                                                         *)
(* One scan is a sequential loop; the model takes one step per loop        *)
(* iteration.  The market data provider and the two presentation objects   *)
(* (status text, progress bar) are the environment: each of their calls    *)
(* either returns or raises.  The per-ticker sub-series of the intraday    *)
(* batch are immutable once fetched and each is read in its own iteration  *)
(* only, so a live provider's sub-series is drawn when it is read.         *)
(***************************************************************************)
EXTENDS Integers, Sequences, FiniteSets, TLC

VARIABLES universe, harness, clock, pc, exc, kind, idx,
          suggestions, warnings, progress, cur, seen, prev

vars == <<universe, harness, clock, pc, exc, kind, idx,
          suggestions, warnings, progress, cur, seen, prev>>

(***************************************************************************)
(* Bounds of the model.                                                    *)
(***************************************************************************)
\* tickers of each list scanned by the bounded specifications
MaxTickers == 2
\* daily bars of one long-term series
MaxDays == 2
\* bars between the first and the last bar of the day in an intraday series
MaxMiddle == 9

(***************************************************************************)
(* The ticker lists.                                                       *)
(***************************************************************************)
NIFTY_50_STOCKS ==
  << "RELIANCE.NS", "TCS.NS", "HDFCBANK.NS", "ICICIBANK.NS", "INFY.NS",
     "HINDUNILVR.NS", "BHARTIARTL.NS", "ITC.NS", "SBIN.NS", "LICI.NS",
     "BAJFINANCE.NS", "HCLTECH.NS", "MARUTI.NS", "KOTAKBANK.NS", "LT.NS",
     "SUNPHARMA.NS", "AXISBANK.NS", "NTPC.NS", "ONGC.NS", "ADANIENT.NS",
     "TATAMOTORS.NS", "ASIANPAINT.NS", "WIPRO.NS", "DMART.NS",
     "ULTRACEMCO.NS", "COALINDIA.NS", "BAJAJFINSV.NS", "ADANIPORTS.NS",
     "POWERGRID.NS", "NESTLEIND.NS", "GRASIM.NS", "SBILIFE.NS",
     "M&M.NS", "JSWSTEEL.NS", "TATASTEEL.NS", "HDFCLIFE.NS",
     "INDUSINDBK.NS", "BRITANNIA.NS", "CIPLA.NS", "DRREDDY.NS",
     "EICHERMOT.NS", "HINDALCO.NS", "HEROMOTOCO.NS", "BPCL.NS",
     "DIVISLAB.NS", "TECHM.NS", "APOLLOHOSP.NS", "TITAN.NS",
     "UPL.NS", "SHREECEM.NS" >>

NIFTY_100_STOCKS ==
  NIFTY_50_STOCKS \o
  << "ADANIGREEN.NS", "BAJAJ-AUTO.NS", "CHOLAFIN.NS", "GAIL.NS",
     "GODREJCP.NS", "HAVELLS.NS", "ICICIPRULI.NS", "IOC.NS",
     "PIDILITIND.NS", "SIEMENS.NS", "TATACONSUM.NS", "TVSMOTOR.NS",
     "VEDL.NS", "ZEEL.NS", "AMBUJACEM.NS", "BEL.NS", "BOSCHLTD.NS",
     "DLF.NS", "ICICIGI.NS", "INDIGO.NS", "MARICO.NS", "PGHH.NS",
     "PNB.NS", "SAIL.NS", "SRF.NS", "ZOMATO.NS", "BANKBARODA.NS",
     "BERGEPAINT.NS", "CANBK.NS", "DABUR.NS", "HAL.NS",
     "IDFCFIRSTB.NS", "INDUSTOWER.NS", "JINDALSTEL.NS", "LTIM.NS",
     "MOTHERSON.NS", "PETRONET.NS", "PIIND.NS", "SHRIRAMFIN.NS",
     "TATAPOWER.NS", "TORNTPOWER.NS", "TRENT.NS", "AUROPHARMA.NS",
     "COLPAL.NS", "HDFCAMC.NS", "HINDPETRO.NS", "IRCTC.NS" >>

Kinds == {"long", "intraday"}

\* the calendar days of the clock: intraday bars are dated 1 and 2, a scan
\* runs on the latest trading day (2) or on the day after it (3)
ClockDays == {2, 3}

\* the list a scan of kind k iterates over
ListOf(k) == IF k = "long" THEN universe.n100 ELSE universe.n50

(***************************************************************************)
(* Arithmetic helpers.                                                     *)
(***************************************************************************)
Min2(a, b) == IF a <= b THEN a ELSE b
Max2(a, b) == IF a >= b THEN a ELSE b

RECURSIVE SeqMin(_)
\* Series.min()
SeqMin(s) == IF Len(s) = 1 THEN s[1] ELSE Min2(s[1], SeqMin(Tail(s)))

RECURSIVE SeqMax(_)
\* Series.max()
SeqMax(s) == IF Len(s) = 1 THEN s[1] ELSE Max2(s[1], SeqMax(Tail(s)))

RECURSIVE SeqSum(_)
\* the sum behind Series.mean()
SeqSum(s) == IF s = <<>> THEN 0 ELSE s[1] + SeqSum(Tail(s))

\* a / b rounded to the nearest integer, ties to even (b > 0)
RoundDiv(a, b) ==
  LET q == a \div b
      r == a % b
  IN  IF 2 * r < b THEN q
      ELSE IF 2 * r > b THEN q + 1
      ELSE IF q % 2 = 0 THEN q ELSE q + 1

\* format(x, ".2f") of a value given in hundredths: sign, whole part, cents
Fmt2(h) ==
  LET a == IF h < 0 THEN 0 - h ELSE h
  IN  [neg |-> h < 0, whole |-> a \div 100, cents |-> a % 100]

Column(bars, f) == [i \in 1..Len(bars) |-> bars[i][f]]

(***************************************************************************)
(* _update_progress.                                                       *)
(***************************************************************************)
\* a faulty variant: the fraction of the tickers before this one, i / total
ProgressFraction_BeforeTicker(i, total) ==
  IF i >= total THEN <<1, 1>> ELSE <<i, total>>

\* min(1.0, (i + 1) / float(total)) as a fraction <<numerator, denominator>>
ProgressFraction(i, total) ==
  IF i + 1 >= total THEN <<1, 1>> ELSE <<i + 1, total>>

\* whether a failure of bar.progress leaves _update_progress as an exception
\* (except Exception: pass)
ProgressPropagates(barOk) == FALSE

(***************************************************************************)
(* find_long_term_suggestions: the body of one loop iteration.             *)
(* A fetch outcome is [raises, bars]; a daily bar is [Low, High, Close].   *)
(***************************************************************************)
\* a faulty variant: a strict comparison
NearLow_Strict(current_price, fifty_two_week_low) ==
  100 * current_price < 105 * fifty_two_week_low

\* current_price <= fifty_two_week_low * 1.05
NearLow(current_price, fifty_two_week_low) ==
  100 * current_price <= 105 * fifty_two_week_low

\* the dictionary appended to suggestions; the last f-string divides by
\* current_price
LongTermRecord(ticker, current_price, fifty_two_week_low, fifty_two_week_high) ==
  [ Stock    |-> ticker,
    CMP      |-> Fmt2(current_price),
    Low52    |-> Fmt2(fifty_two_week_low),
    High52   |-> Fmt2(fifty_two_week_high),
    Upside   |-> Fmt2(RoundDiv((fifty_two_week_high - current_price) * 10000,
                               current_price)) ]

\* lines 76-88, on a frame that is not empty
LongTermEvaluate(ticker, bars) ==
  LET fifty_two_week_low  == SeqMin(Column(bars, "Low"))
      fifty_two_week_high == SeqMax(Column(bars, "High"))
      current_price       == bars[Len(bars)].Close
  IN  IF ~NearLow(current_price, fifty_two_week_low)
        THEN [raised |-> FALSE, recs |-> <<>>]
      ELSE IF current_price = 0
        \* ZeroDivisionError in the "Upside Potential" f-string
        THEN [raised |-> TRUE, recs |-> <<>>]
      ELSE [raised |-> FALSE,
            recs   |-> << LongTermRecord(ticker, current_price,
                              fifty_two_week_low, fifty_two_week_high) >>]

\* a faulty variant: no test of stock_data.empty, so that iloc[-1] raises on an empty
\* frame
LongTermBody_NoEmptyTest(ticker, statusOk, f) ==
  IF ~statusOk \/ f.raises \/ f.bars = <<>>
    THEN [raised |-> TRUE, recs |-> <<>>]
    ELSE LongTermEvaluate(ticker, f.bars)

\* the try block of one iteration: [raised, recs], recs the records appended
LongTermBody(ticker, statusOk, f) ==
  IF ~statusOk \/ f.raises
    \* status_text.text or yf.download raised
    THEN [raised |-> TRUE, recs |-> <<>>]
  ELSE IF f.bars = <<>>
    THEN [raised |-> FALSE, recs |-> <<>>]
  ELSE LongTermEvaluate(ticker, f.bars)

\* a faulty variant: the exception is not caught
BodyPropagates_Uncaught(raised) == raised

\* whether an exception raised in the try block leaves the iteration
\* (except Exception catches it, in both loops)
BodyPropagates(raised) == FALSE

\* except Exception as e: st.warning(...): the warnings one iteration adds
LongTermWarnings(ticker, raised) == IF raised THEN <<ticker>> ELSE <<>>

(***************************************************************************)
(* find_intraday_opportunities: the body of one loop iteration.            *)
(* A sub-series is [present, hasVolume, bars]; a 5-minute bar is           *)
(* [day, Open, High, Close, Volume].                                       *)
(***************************************************************************)
\* ticker_frame[ticker_frame.index.date == today]
TodayData(bars, today) == SelectSeq(bars, LAMBDA b : b.day = today)

\* last_price > day_open and last_price >= (day_high * 0.995)
NearDayHigh(last_price, day_open, day_high) ==
  last_price > day_open /\ 1000 * last_price >= 995 * day_high

\* today_data['Volume'].iloc[-10:-1]
RecentVol(vols) == SubSeq(vols, Max2(1, Len(vols) - 9), Len(vols) - 1)

\* avg_volume == 0 or last_volume > avg_volume * 1.5, with avg_volume and
\* last_volume as lines 126-136 set them
VolumeSpike(hasVolume, vols) ==
  IF ~hasVolume \/ RecentVol(vols) = <<>>
    THEN TRUE
  ELSE
    LET recent_vol  == RecentVol(vols)
        last_volume == vols[Len(vols)]
    IN  \/ SeqSum(recent_vol) = 0
        \/ 2 * last_volume * Len(recent_vol) > 3 * SeqSum(recent_vol)

\* a faulty variant: the entry price without its 0.05
Risk_NoOffset(day_high, day_open) == day_high - day_open

\* risk = entry_price - stop_loss with entry_price = day_high + 0.05
Risk(day_high, day_open) == (day_high + 5) - day_open

\* the dictionary appended to suggestions; target = entry + risk * 1.5
IntradayRecord(ticker, last_price, day_high, day_open) ==
  LET entry_price == day_high + 5
      stop_loss   == day_open
      risk        == Risk(day_high, day_open)
  IN  [ Stock     |-> ticker,
        CMP       |-> Fmt2(last_price),
        Condition |-> "Near Day High + Volume Spike",
        Entry     |-> Fmt2(entry_price),
        Target    |-> Fmt2(RoundDiv(2 * entry_price + 3 * risk, 2)),
        StopLoss  |-> Fmt2(stop_loss) ]

\* the try block of one iteration: [raised, recs]
IntradayBody(ticker, statusOk, f, today) ==
  IF ~statusOk \/ ~f.present
    \* status_text.text raised, or KeyError in data.loc
    THEN [raised |-> TRUE, recs |-> <<>>]
  ELSE IF f.bars = <<>> \/ TodayData(f.bars, today) = <<>>
    THEN [raised |-> FALSE, recs |-> <<>>]
  ELSE
    LET today_data == TodayData(f.bars, today)
        last_price == today_data[Len(today_data)].Close
        day_high   == SeqMax(Column(today_data, "High"))
        day_open   == today_data[1].Open
    IN  IF /\ NearDayHigh(last_price, day_open, day_high)
           /\ VolumeSpike(f.hasVolume, Column(today_data, "Volume"))
           /\ Risk(day_high, day_open) > 0
          THEN [raised |-> FALSE,
                recs   |-> << IntradayRecord(ticker, last_price, day_high,
                                             day_open) >>]
          ELSE [raised |-> FALSE, recs |-> <<>>]

\* except Exception: pass: the intraday scan warns about nothing
IntradayWarnings(ticker, raised) == <<>>

(***************************************************************************)
(* The environment: what the data provider may return, what the            *)
(* presentation objects may do.                                            *)
(***************************************************************************)
DailyBars == [Low : {1900, 2000}, High : {3000},
              Close : {0, 1995, 2100, 2101}]

DailySeries == UNION { [1..n -> DailyBars] : n \in 0..MaxDays }

\* yf.download(ticker, period="1y") returns a frame or raises
DailyOutcomes ==
  {[raises |-> TRUE, bars |-> <<>>]} \cup
  {[raises |-> FALSE, bars |-> s] : s \in DailySeries}

NotFetched == [raises |-> FALSE, bars |-> <<>>]

\* the bar of the previous trading day, the first, middle and last bars of
\* the latest trading day
PrevBars == [day : {1}, Open : {9000}, High : {11000}, Close : {9000},
              Volume : {1000}]
FirstBars == [day : {2}, Open : {10000, 10500, 10505}, High : {10500},
              Close : {10000}, Volume : {0, 1000}]
MidBars == [day : {2}, Open : {10000}, High : {10400}, Close : {10000},
              Volume : {0, 1000}]
LastBars == [day : {2}, Open : {10000}, High : {10400, 10500},
              Close : {10447, 10448, 10506}, Volume : {1500, 1501}]

MidCounts == {MaxMiddle - 1, MaxMiddle}

LatestDay ==
  {<<>>} \cup {<<b>> : b \in FirstBars \cup LastBars} \cup
  { <<f, l>> : f \in FirstBars, l \in LastBars } \cup
  { <<f>> \o [i \in 1..m |-> b] \o <<l>> :
      f \in FirstBars, m \in MidCounts, b \in MidBars, l \in LastBars }

\* period="2d": an empty frame, or the previous day's bar and the latest day
IntradaySeries ==
  {<<>>} \cup { <<p>> \o d : p \in PrevBars, d \in LatestDay }

\* the ticker's columns of the batch frame: absent (KeyError), or bars with
\* or without a Volume column
IntradayOutcomes ==
  {[present |-> FALSE, hasVolume |-> FALSE, bars |-> <<>>]} \cup
  [present : {TRUE}, hasVolume : BOOLEAN, bars : IntradaySeries]

\* the fixed series of a mocked fetch
MockDaily ==
  { [raises |-> FALSE, bars |-> <<>>],
    [raises |-> FALSE, bars |-> <<[Low |-> 2000, High |-> 3000, Close |-> 2100]>>],
    [raises |-> TRUE,  bars |-> <<>>] }

MockIntraday ==
  { [present |-> TRUE, hasVolume |-> TRUE, bars |-> <<>>],
    [present |-> TRUE, hasVolume |-> TRUE,
     bars |-> << [day |-> 1, Open |-> 9000, High |-> 11000, Close |-> 9000,
                  Volume |-> 1000],
                 [day |-> 2, Open |-> 10000, High |-> 10500, Close |-> 10000,
                  Volume |-> 1000],
                 [day |-> 2, Open |-> 10000, High |-> 10500, Close |-> 10448,
                  Volume |-> 1501] >>] }

\* what one call of the data provider for ticker t may give
DailyFetch(t) == IF harness.mocked THEN {harness.daily[t]} ELSE DailyOutcomes
IntradayFetch(t) ==
  IF harness.mocked THEN {harness.intraday[t]} ELSE IntradayOutcomes
BatchFetchOk == IF harness.mocked THEN {TRUE} ELSE BOOLEAN

\* whether one call of status_text.text / bar.progress returns
CallbackOk == IF harness.noopUi THEN {TRUE} ELSE BOOLEAN

(***************************************************************************)
(* State.                                                                  *)
(***************************************************************************)
NoCur ==
  [ kind |-> "none", ticker |-> "", pos |-> 0, statusOk |-> TRUE,
    progressOk |-> TRUE, fetched |-> FALSE, daily |-> NotFetched,
    intra |-> [present |-> FALSE, hasVolume |-> FALSE, bars |-> <<>>],
    today |-> 0, raised |-> FALSE, before |-> <<>>, warnedBefore |-> <<>> ]

NoPrev == [has |-> FALSE, kind |-> "none", table |-> <<>>, seen |-> <<>>]

Tickers(u) == {u.n100[i] : i \in 1..Len(u.n100)} \cup
              {u.n50[i] : i \in 1..Len(u.n50)}

InitScript ==
  /\ clock = 2
  /\ pc = "idle"
  /\ exc = "none"
  /\ kind = "none"
  /\ idx = 0
  /\ suggestions = <<>>
  /\ warnings = <<>>
  /\ progress = <<>>
  /\ cur = NoCur
  /\ seen = <<>>
  /\ prev = NoPrev

\* the first MaxTickers symbols of each list, a live provider and live
\* presentation objects
Init ==
  /\ universe = [n100 |-> SubSeq(NIFTY_100_STOCKS, 1, MaxTickers),
                 n50  |-> SubSeq(NIFTY_50_STOCKS, 1, MaxTickers)]
  /\ harness = [mocked |-> FALSE, noopUi |-> FALSE,
                daily |-> <<>>, intraday |-> <<>>]
  /\ InitScript

\* the same with a mocked fetch: every fetch of a ticker gives the same series
InitMock ==
  /\ universe = [n100 |-> SubSeq(NIFTY_100_STOCKS, 1, MaxTickers),
                 n50  |-> SubSeq(NIFTY_50_STOCKS, 1, MaxTickers)]
  /\ \E d \in [Tickers(universe) -> MockDaily],
        m \in [Tickers(universe) -> MockIntraday] :
       harness = [mocked |-> TRUE, noopUi |-> FALSE,
                  daily |-> d, intraday |-> m]
  /\ InitScript

\* the lists as the module defines them, over a provider that has no data
\* and presentation objects that do nothing
InitFull ==
  /\ universe = [n100 |-> NIFTY_100_STOCKS, n50 |-> NIFTY_50_STOCKS]
  /\ harness = [mocked |-> TRUE, noopUi |-> TRUE,
                daily |-> [t \in Tickers(universe) |->
                             [raises |-> FALSE, bars |-> <<>>]],
                intraday |-> [t \in Tickers(universe) |->
                             [present |-> TRUE, hasVolume |-> TRUE,
                              bars |-> <<>>]]]
  /\ InitScript

(***************************************************************************)
(* The script: a button starts a scan, the scan iterates over its list,    *)
(* returns its table or raises, and the script is run again.               *)
(***************************************************************************)
\* a faulty variant: the list of the previous invocation is kept
StaleSuggestions == suggestions

\* suggestions = []
FreshSuggestions == <<>>

\* "Find Long-Term Investments": lines 66-68 of find_long_term_suggestions
StartLongTerm ==
  /\ pc = "idle"
  /\ kind' = "long"
  /\ pc' = "loop"
  /\ exc' = "none"
  /\ idx' = 0
  /\ suggestions' = FreshSuggestions
  /\ warnings' = <<>>
  /\ progress' = <<>>
  /\ cur' = NoCur
  /\ seen' = <<>>
  /\ UNCHANGED <<universe, harness, clock, prev>>

\* "Find Intraday Opportunities": lines 103-107, the batch fetch included
StartIntraday ==
  /\ pc = "idle"
  /\ \E fetchOk \in BatchFetchOk :
       /\ pc' = IF fetchOk THEN "loop" ELSE "raised"
       /\ exc' = IF fetchOk THEN "none" ELSE "fetch"
  /\ kind' = "intraday"
  /\ idx' = 0
  /\ suggestions' = FreshSuggestions
  /\ warnings' = <<>>
  /\ progress' = <<>>
  /\ cur' = NoCur
  /\ seen' = <<>>
  /\ UNCHANGED <<universe, harness, clock, prev>>

\* what the test harness notes of one iteration when the fetch is mocked
Noted(statusOk, today) ==
  IF harness.mocked /\ ~harness.noopUi
    THEN <<[statusOk |-> statusOk, today |-> today]>>
    ELSE <<>>

\* where an iteration leaves the scan: at the end of the iteration, or
\* raising out of the function
IterationEnds(raised, barOk) ==
  IF BodyPropagates(raised) THEN [pc |-> "raised", exc |-> "body"]
  ELSE IF ProgressPropagates(barOk) THEN [pc |-> "raised", exc |-> "progress"]
  ELSE [pc |-> "iter", exc |-> "none"]

\* one iteration of the loop of find_long_term_suggestions
ProcessLongTerm ==
  /\ pc = "loop"
  /\ kind = "long"
  /\ idx < Len(ListOf("long"))
  /\ LET ticker == ListOf("long")[idx + 1]
         total  == Len(ListOf("long"))
     IN  \E statusOk \in CallbackOk, barOk \in CallbackOk :
         \E f \in IF statusOk THEN DailyFetch(ticker) ELSE {NotFetched} :
           LET body == LongTermBody(ticker, statusOk, f)
           IN  /\ suggestions' = suggestions \o body.recs
               /\ warnings' = warnings \o LongTermWarnings(ticker, body.raised)
               /\ progress' = Append(progress, ProgressFraction(idx, total))
               /\ pc' = IterationEnds(body.raised, barOk).pc
               /\ exc' = IterationEnds(body.raised, barOk).exc
               /\ cur' = [NoCur EXCEPT !.kind = "long", !.ticker = ticker,
                            !.pos = idx, !.statusOk = statusOk,
                            !.progressOk = barOk, !.fetched = statusOk,
                            !.daily = f, !.raised = body.raised,
                            !.before = suggestions,
                            !.warnedBefore = warnings]
               /\ seen' = seen \o Noted(statusOk, 0)
  /\ idx' = idx + 1
  /\ UNCHANGED <<universe, harness, clock, kind, prev>>

\* one iteration of the loop of find_intraday_opportunities
ProcessIntraday ==
  /\ pc = "loop"
  /\ kind = "intraday"
  /\ idx < Len(ListOf("intraday"))
  /\ LET ticker == ListOf("intraday")[idx + 1]
         total  == Len(ListOf("intraday"))
         today  == clock
     IN  \E statusOk \in CallbackOk, barOk \in CallbackOk :
         \E f \in IntradayFetch(ticker) :
           LET body == IntradayBody(ticker, statusOk, f, today)
           IN  /\ suggestions' = suggestions \o body.recs
               /\ warnings' = warnings \o IntradayWarnings(ticker, body.raised)
               /\ progress' = Append(progress, ProgressFraction(idx, total))
               /\ pc' = IterationEnds(body.raised, barOk).pc
               /\ exc' = IterationEnds(body.raised, barOk).exc
               /\ cur' = [NoCur EXCEPT !.kind = "intraday", !.ticker = ticker,
                            !.pos = idx, !.statusOk = statusOk,
                            !.progressOk = barOk, !.fetched = TRUE,
                            !.intra = f, !.today = today,
                            !.raised = body.raised,
                            !.before = suggestions,
                            !.warnedBefore = warnings]
               /\ seen' = seen \o Noted(statusOk, today)
  /\ idx' = idx + 1
  /\ UNCHANGED <<universe, harness, clock, kind, prev>>

\* the loop takes the next ticker: the previous iteration's locals are gone
Advance ==
  /\ pc = "iter"
  /\ pc' = "loop"
  /\ cur' = NoCur
  /\ UNCHANGED <<universe, harness, clock, exc, kind, idx, suggestions,
                 warnings, progress, seen, prev>>

\* status_text.text("Analysis Complete!") and return pd.DataFrame(suggestions)
Finish ==
  /\ pc = "loop"
  /\ idx = Len(ListOf(kind))
  /\ \E statusOk \in CallbackOk :
       /\ pc' = IF statusOk THEN "done" ELSE "raised"
       /\ exc' = IF statusOk THEN "none" ELSE "status"
  /\ UNCHANGED <<universe, harness, clock, kind, idx, suggestions, warnings,
                 progress, cur, seen, prev>>

\* the script ends (the table rendered, or the exception shown) and waits for
\* the next button; with a mocked fetch the harness keeps the returned table
Rerun ==
  /\ pc \in {"done", "raised"}
  /\ pc' = "idle"
  /\ exc' = "none"
  /\ prev' = IF harness.mocked /\ ~harness.noopUi /\ pc = "done"
               THEN [has |-> TRUE, kind |-> kind, table |-> suggestions,
                     seen |-> seen]
               ELSE prev
  /\ kind' = "none"
  /\ idx' = 0
  /\ warnings' = <<>>
  /\ progress' = <<>>
  /\ cur' = NoCur
  /\ seen' = <<>>
  /\ UNCHANGED <<universe, harness, clock, suggestions>>

\* midnight passes: datetime.today() changes
Tick ==
  /\ clock + 1 \in ClockDays
  /\ clock' = clock + 1
  /\ UNCHANGED <<universe, harness, pc, exc, kind, idx, suggestions, warnings,
                 progress, cur, seen, prev>>

Next ==
  \/ StartLongTerm
  \/ StartIntraday
  \/ ProcessLongTerm
  \/ ProcessIntraday
  \/ Advance
  \/ Finish
  \/ Rerun
  \/ Tick

Spec == Init /\ [][Next]_vars

SpecMock == InitMock /\ [][Next]_vars

SpecFull == InitFull /\ [][Next]_vars

(***************************************************************************)
(* Vocabulary of the properties.  It is written from the statements, on    *)
(* the inputs the last iteration received (cur), not with the operators    *)
(* of the scans.                                                           *)
(***************************************************************************)
MinOf(S) == CHOOSE m \in S : \A x \in S : m <= x
MaxOf(S) == CHOOSE m \in S : \A x \in S : m >= x

RECURSIVE SumOver(_, _)
SumOver(I, v) ==
  IF I = {} THEN 0
  ELSE LET i == CHOOSE x \in I : TRUE IN v[i] + SumOver(I \ {i}, v)

\* a record of ticker t is in the table
HasRecord(t) == \E i \in 1..Len(suggestions) : suggestions[i].Stock = t

AtLongTicker == pc = "iter" /\ cur.kind = "long"
AtIntradayTicker == pc = "iter" /\ cur.kind = "intraday"

\* Close of the last observation <= min(Low over the whole series) * 1.05
WithinFivePercentOfLow ==
  LET bars == cur.daily.bars
  IN  /\ bars # <<>>
      /\ 100 * bars[Len(bars)].Close
           <= 105 * MinOf({bars[i].Low : i \in 1..Len(bars)})

\* what the statements say of the bars dated today: whether there is one,
\* today_open (Open of the first), today_high (the maximum High), last_close
\* (Close of the last), the prior window (the up-to-9 bars of today that
\* precede the last bar; no volumes to average when the frame has no Volume
\* column), Condition A, Condition B and risk
Today ==
  LET bars == cur.intra.bars
      T    == {i \in 1..Len(bars) : bars[i].day = cur.today}
  IN  IF T = {}
        THEN [any |-> FALSE, open |-> 0, high |-> 0, close |-> 0,
              firstHigh |-> 0, A |-> FALSE, B |-> FALSE, risk |-> 0]
        ELSE
          LET first == MinOf(T)
              last  == MaxOf(T)
              open  == bars[first].Open
              high  == MaxOf({bars[i].High : i \in T})
              close == bars[last].Close
              W     == IF ~cur.intra.hasVolume THEN {}
                       ELSE {i \in T :
                               /\ i < last
                               /\ Cardinality({j \in T : i <= j /\ j < last})
                                    <= 9}
              vol   == [i \in 1..Len(bars) |-> bars[i].Volume]
              sum   == SumOver(W, vol)
          IN  [any |-> TRUE, open |-> open, high |-> high, close |-> close,
               firstHigh |-> bars[first].High,
               \* last_close > today_open and last_close >= today_high * 0.995
               A |-> close > open /\ 1000 * close >= 995 * high,
               \* avg_volume == 0 or last_volume > avg_volume * 1.5, with
               \* avg_volume = sum / |W|, and 0 when W is empty
               B |-> \/ W = {}
                     \/ sum = 0
                     \/ 2 * vol[last] * Cardinality(W) > 3 * sum,
               \* (today_high + 0.05) - today_open
               risk |-> (high + 5) - open]

\* all the conditions of the intraday rule
BreakoutRule ==
  LET d == Today IN d.any /\ d.A /\ d.B /\ d.risk > 0

(***************************************************************************)
(* C1.  In find_long_term_suggestions a record of the ticker is in the     *)
(* table if and only if its series is non-empty, no exception occurred     *)
(* for the ticker, and the Close of the last observation is                *)
(* <= min(Low over the whole series) * 1.05.                               *)
(***************************************************************************)
C1_LongTermRecordIff ==
  AtLongTicker =>
    ( HasRecord(cur.ticker) <=> (~cur.raised /\ WithinFivePercentOfLow) )

\* a two-day series whose lows differ, matched on its minimum
C1_Witness ==
  /\ AtLongTicker
  /\ HasRecord(cur.ticker)
  /\ Len(cur.daily.bars) = 2
  /\ cur.daily.bars[1].Low < cur.daily.bars[2].Low

(***************************************************************************)
(* C2.  In find_intraday_opportunities a record of the ticker is emitted   *)
(* if and only if the ticker has a bar dated today, Condition A and        *)
(* Condition B hold and risk = (today_high + 0.05) - today_open > 0.       *)
(* The statement as it stands: a ticker whose bars meet every condition    *)
(* loses its record when status_text.text raises in its iteration.         *)
(***************************************************************************)
C2_IntradayRecordIff ==
  AtIntradayTicker =>
    ( HasRecord(cur.ticker) <=> (cur.intra.present /\ BreakoutRule) )

\* the rule decides the record whenever the status update returned
IntradayRuleWhenStatusReturns ==
  (AtIntradayTicker /\ cur.statusOk) =>
    ( HasRecord(cur.ticker) <=> (cur.intra.present /\ BreakoutRule) )

C4_BatchFetchFailureDegrades == ~(pc = "raised" /\ exc = "fetch")

(***************************************************************************)
(* C5.  A failure of the progress bar update or of the status text update  *)
(* never leaves the scan, surfaces no warning, and leaves the table as it  *)
(* is when the callback returns.  The statement as it stands.              *)
(***************************************************************************)
C5_CallbackFailuresHarmless ==
  /\ exc \notin {"status", "progress"}
  /\ (pc = "iter" /\ (~cur.statusOk \/ ~cur.progressOk) =>
        /\ warnings = cur.warnedBefore
        /\ (cur.kind = "intraday" =>
              (HasRecord(cur.ticker) <=> (cur.intra.present /\ BreakoutRule))))

\* the part that holds: a failure of bar.progress changes nothing
ProgressFailureHarmless ==
  /\ exc # "progress"
  /\ (pc = "iter" /\ cur.statusOk /\ ~cur.progressOk =>
        /\ (cur.kind = "intraday" =>
              (HasRecord(cur.ticker) <=> (cur.intra.present /\ BreakoutRule)))
        /\ (cur.kind = "long" =>
              (HasRecord(cur.ticker) <=> (~cur.raised /\ WithinFivePercentOfLow))))

(***************************************************************************)
(* C6.  The progress reporter is invoked exactly once per processed        *)
(* ticker, whatever the ticker's outcome; the fraction reported after      *)
(* ticker i (0-indexed) is min(1.0, (i+1)/N); the fractions are            *)
(* non-decreasing and the last one of a complete scan is 1.0.              *)
(***************************************************************************)
C6_ProgressMonotone ==
  LET N == Len(ListOf(kind))
  IN  kind \in Kinds =>
        /\ Len(progress) = idx
        /\ \A i \in 1..Len(progress) :
             /\ progress[i][2] > 0
             /\ progress[i][1] * N = progress[i][2] * (IF i <= N THEN i ELSE N)
        /\ \A i, j \in 1..Len(progress) :
             i <= j => progress[i][1] * progress[j][2]
                         <= progress[j][1] * progress[i][2]
        /\ (pc = "done" =>
              /\ Len(progress) = N
              /\ progress[N][1] = progress[N][2])

\* a complete scan in which the last ticker raised and the bar failed
C6_Witness ==
  /\ pc = "iter"
  /\ idx = Len(ListOf(kind))
  /\ cur.raised
  /\ ~cur.progressOk
  /\ Len(progress) = MaxTickers
  /\ progress[1][1] < progress[1][2]

C8_UniverseSizes ==
  /\ (pc = "done" /\ kind = "long" => idx = 100 /\ Len(progress) = 100)
  /\ (pc = "done" /\ kind = "intraday" => idx = 50 /\ Len(progress) = 50)

\* what the lists hold
UniverseSizes ==
  /\ Len(NIFTY_100_STOCKS) = 97
  /\ Len(NIFTY_50_STOCKS) = 50
  /\ (pc = "done" => idx = Len(ListOf(kind)) /\ Len(progress) = idx)

(***************************************************************************)
(* C9.  EmptyData is a normal outcome: a ticker whose fetched series is    *)
(* present but empty (or, in the intraday scan, has no bar dated today)    *)
(* adds no record and no warning, and the scan goes on to the next ticker. *)
(***************************************************************************)
C9_EmptyDataIsNormal ==
  LET emptyLong == /\ cur.kind = "long"
                   /\ cur.fetched
                   /\ ~cur.daily.raises
                   /\ cur.daily.bars = <<>>
      emptyIntraday == /\ cur.kind = "intraday"
                       /\ cur.intra.present
                       /\ ~Today.any
  IN  (pc \in {"iter", "raised"} /\ (emptyLong \/ emptyIntraday)) =>
        /\ pc = "iter"
        /\ exc = "none"
        /\ idx = cur.pos + 1
        /\ suggestions = cur.before
        /\ warnings = cur.warnedBefore

\* the long-term fetch of the second ticker returned an empty frame after the
\* first ticker had matched
C9_Witness ==
  /\ AtLongTicker
  /\ cur.fetched
  /\ ~cur.daily.raises
  /\ cur.daily.bars = <<>>
  /\ cur.pos = 1
  /\ Len(suggestions) = 1

GuardSuppresses ==
  /\ AtIntradayTicker
  /\ cur.statusOk
  /\ Today.any
  /\ Today.A
  /\ Today.B
  /\ ~HasRecord(cur.ticker)
====
